---------------------------- MODULE Spec2Model ----------------------------
(***************************************************************************)
(* dep-tree: the graph builder (buildGraph), the path resolver             *)
(* (resolveLocal), language detection and the specifier classifiers.       *)
(* Paths and specifiers are real strings; the path functions of node's     *)
(* `path` module (POSIX flavour) are computed character by character.      *)
(***************************************************************************)
EXTENDS Naturals, Sequences, FiniteSets, TLC

VARIABLES
  fs,          \* the disk: absolute path -> [kind: "file" | "dir", src: statements]
  entries,     \* buildGraph's first argument
  options,     \* buildGraph's second argument (a field may be Undef)
  pc,          \* "start" | "loop" | "done" | "error"
  queue,       \* the work queue of [file, depth]
  visited,     \* the Set of root-relative paths already dequeued
  nodes,       \* the Map relPath -> node, in insertion order
  edges,       \* the edge list
  externals,   \* the Set of external specifiers, in insertion order
  builtins,    \* the Set of builtin specifiers, in insertion order
  unresolved,  \* the list of unresolved records
  scanned,     \* history: the relPath of every readFileSync + parse, in order
  result,      \* the returned graph (NoResult until buildGraph returns)
  arg,         \* a direct call of classify or resolveLocal: its arguments
  ret          \* that call's return value (NoRet before it returns)

gvars == <<fs, entries, options, pc, queue, visited, nodes, edges, externals,
           builtins, unresolved, scanned, result>>
hvars == <<arg, ret>>
vars == <<fs, entries, options, pc, queue, visited, nodes, edges, externals,
          builtins, unresolved, scanned, result, arg, ret>>

-----------------------------------------------------------------------------
(* Bounds of the model.                                                    *)

MaxImports == 2      \* statements in the source of a.js
MaxEntries == 2      \* length of the entry list
MaxDepthOpt == 1     \* largest finite maxDepth option tried
MaxLines == 2        \* lines of a source text given to parse
MaxTreeEdges == 3    \* local edges of a graph given to formatTree

-----------------------------------------------------------------------------
(* Strings.                                                                *)

Null == "<null>"      \* resolveLocal's and detectLanguage's null
Infinity == 1000000   \* larger than every depth the model reaches

Char(s, i) == SubSeq(s, i, i)

StartsWith(s, p) == Len(s) >= Len(p) /\ SubSeq(s, 1, Len(p)) = p

RECURSIVE SplitAcc(_, _, _, _, _)
SplitAcc(s, sep, i, cur, acc) ==
  IF i > Len(s) THEN Append(acc, cur)
  ELSE IF Char(s, i) = sep THEN SplitAcc(s, sep, i + 1, "", Append(acc, cur))
  ELSE SplitAcc(s, sep, i + 1, cur \o Char(s, i), acc)

\* String.prototype.split(sep) for a one-character separator
Split(s, sep) == SplitAcc(s, sep, 1, "", <<>>)

RECURSIVE JoinWith(_, _)
JoinWith(segs, sep) ==
  IF Len(segs) = 0 THEN ""
  ELSE IF Len(segs) = 1 THEN segs[1]
  ELSE segs[1] \o sep \o JoinWith(Tail(segs), sep)

Upper == "ABCDEFGHIJKLMNOPQRSTUVWXYZ"
Lower == "abcdefghijklmnopqrstuvwxyz"

LowerChar(c) ==
  IF \E k \in 1..Len(Upper) : Char(Upper, k) = c
  THEN Char(Lower, CHOOSE k \in 1..Len(Upper) : Char(Upper, k) = c)
  ELSE c

RECURSIVE toLowerCase(_)
toLowerCase(s) ==
  IF Len(s) = 0 THEN "" ELSE LowerChar(Char(s, 1)) \o toLowerCase(SubSeq(s, 2, Len(s)))

\* the characters the model's strings use, in UTF-16 code unit order
CodeOrder == " ./0123456789:@ABCDEFGHIJKLMNOPQRSTUVWXYZ[]_abcdefghijklmnopqrstuvwxyz"

CodeOf(c) == CHOOSE k \in 1..Len(CodeOrder) : Char(CodeOrder, k) = c

RECURSIVE StrLess(_, _)
\* a < b for strings, as Array.prototype.sort's default comparison decides it
StrLess(a, b) ==
  IF Len(b) = 0 THEN FALSE
  ELSE IF Len(a) = 0 THEN TRUE
  ELSE IF Char(a, 1) = Char(b, 1)
       THEN StrLess(SubSeq(a, 2, Len(a)), SubSeq(b, 2, Len(b)))
       ELSE CodeOf(Char(a, 1)) < CodeOf(Char(b, 1))

RECURSIVE InsertSorted(_, _)
InsertSorted(sorted, x) ==
  IF Len(sorted) = 0 THEN <<x>>
  ELSE IF StrLess(x, sorted[1]) THEN <<x>> \o sorted
  ELSE <<sorted[1]>> \o InsertSorted(Tail(sorted), x)

\* a mutant of SortStrings: the Set is spread in insertion order
SortStrings_insertionOrder(seq) == seq

RECURSIVE SortStrings(_)
\* [...set].sort()
SortStrings(seq) ==
  IF Len(seq) = 0 THEN <<>>
  ELSE InsertSorted(SortStrings(SubSeq(seq, 1, Len(seq) - 1)), seq[Len(seq)])

Range(seq) == {seq[i] : i \in 1..Len(seq)}

\* the least number of a non-empty set
Min(S) == CHOOSE k \in S : \A j \in S : k <= j

\* Set.prototype.add on a Set kept in insertion order
SetAdd(seq, x) == IF x \in Range(seq) THEN seq ELSE Append(seq, x)

-----------------------------------------------------------------------------
(* node's path module, POSIX.                                              *)

isAbsolute(p) == StartsWith(p, "/")

RECURSIVE NormSegs(_, _, _)
\* normalizeString: drops "" and ".", lets ".." pop the previous segment
NormSegs(segs, allowAboveRoot, acc) ==
  IF Len(segs) = 0 THEN acc
  ELSE LET s == segs[1] rest == Tail(segs) IN
    IF s = "" \/ s = "." THEN NormSegs(rest, allowAboveRoot, acc)
    ELSE IF s = ".." THEN
      IF Len(acc) > 0 /\ acc[Len(acc)] # ".."
      THEN NormSegs(rest, allowAboveRoot, SubSeq(acc, 1, Len(acc) - 1))
      ELSE IF allowAboveRoot THEN NormSegs(rest, allowAboveRoot, Append(acc, ".."))
      ELSE NormSegs(rest, allowAboveRoot, acc)
    ELSE NormSegs(rest, allowAboveRoot, Append(acc, s))

\* path.resolve(from, to) with `from` absolute
resolve(from, to) ==
  "/" \o JoinWith(NormSegs(Split(IF isAbsolute(to) THEN to ELSE from \o "/" \o to, "/"),
                           FALSE, <<>>), "/")

\* path.join(a, b) with `a` absolute
join(a, b) == "/" \o JoinWith(NormSegs(Split(a \o "/" \o b, "/"), FALSE, <<>>), "/")

RECURSIVE CommonLen(_, _)
CommonLen(a, b) ==
  IF Len(a) = 0 \/ Len(b) = 0 THEN 0
  ELSE IF a[1] = b[1] THEN 1 + CommonLen(Tail(a), Tail(b))
  ELSE 0

\* path.relative(from, to), both absolute
relative(from, to) ==
  LET f == NormSegs(Split(from, "/"), FALSE, <<>>)
      t == NormSegs(Split(to, "/"), FALSE, <<>>)
      c == CommonLen(f, t)
  IN JoinWith([i \in 1..(Len(f) - c) |-> ".."] \o SubSeq(t, c + 1, Len(t)), "/")

RECURSIVE LastIndexOf(_, _, _)
\* the last index <= i of character c in s, 0 if none
LastIndexOf(s, c, i) ==
  IF i = 0 THEN 0 ELSE IF Char(s, i) = c THEN i ELSE LastIndexOf(s, c, i - 1)

\* path.dirname(p) for a path that does not end in "/"
dirname(p) ==
  LET k == LastIndexOf(p, "/", Len(p)) IN
  IF k = 0 THEN "." ELSE IF k = 1 THEN "/" ELSE SubSeq(p, 1, k - 1)

basename(p) == SubSeq(p, LastIndexOf(p, "/", Len(p)) + 1, Len(p))

\* path.extname(p): from the last "." of the basename, "" when there is none or
\* when it is the basename's first character
extname(p) ==
  LET b == basename(p)
      k == LastIndexOf(b, ".", Len(b))
  IN IF k <= 1 THEN "" ELSE SubSeq(b, k, Len(b))

-----------------------------------------------------------------------------
(* The disk.                                                               *)

\* fs.existsSync(p) for any absolute p: the kernel resolves "." and ".." while
\* walking the path
existsSync(p) == resolve("/", p) \in DOMAIN fs

\* fs.statSync(p).isFile() for any absolute p that exists
statIsFile(p) == fs[resolve("/", p)].kind = "file"

\* The same calls for a path that is already in path.resolve's normal form, as
\* every path resolveLocal builds is (target, target + ext, join(target, ...)).
existsNormal(p) == p \in DOMAIN fs

isFile(p) == fs[p].kind = "file"

isDirectory(p) == fs[p].kind = "dir"

-----------------------------------------------------------------------------
(* Languages, parsers and classifiers.                                     *)

EXTENSIONS ==
  [javascript |-> <<".js", ".mjs", ".cjs", ".jsx", ".ts", ".tsx", ".mts", ".cts">>,
   python |-> <<".py">>]

\* Object.entries(EXTENSIONS) lists javascript before python
detectLanguage(filePath) ==
  LET ext == toLowerCase(extname(filePath)) IN
  IF ext \in Range(EXTENSIONS.javascript) THEN "javascript"
  ELSE IF ext \in Range(EXTENSIONS.python) THEN "python"
  ELSE Null

NODE_BUILTINS ==
  {"assert", "buffer", "child_process", "cluster", "console", "constants",
   "crypto", "dgram", "dns", "domain", "events", "fs", "http", "http2",
   "https", "module", "net", "os", "path", "perf_hooks", "process",
   "punycode", "querystring", "readline", "repl", "stream", "string_decoder",
   "sys", "timers", "tls", "tty", "url", "util", "v8", "vm", "wasi",
   "worker_threads", "zlib", "test", "node:test"}

\* a mutant of isNodeBuiltin: the whole specifier is looked up, not its first segment
isNodeBuiltin_wholeName(specifier) ==
  IF StartsWith(specifier, "node:") THEN TRUE ELSE specifier \in NODE_BUILTINS

isNodeBuiltin(specifier) ==
  IF StartsWith(specifier, "node:") THEN TRUE
  ELSE Split(specifier, "/")[1] \in NODE_BUILTINS

classify_javascript(specifier) ==
  IF StartsWith(specifier, ".") \/ StartsWith(specifier, "/") THEN "local"
  ELSE IF isNodeBuiltin(specifier) THEN "builtin"
  ELSE "external"

PYTHON_STDLIB ==
  {"abc", "argparse", "ast", "asyncio", "base64", "bisect", "builtins",
   "calendar", "cmath", "codecs", "collections", "concurrent", "configparser",
   "contextlib", "copy", "csv", "ctypes", "dataclasses", "datetime",
   "decimal", "difflib", "email", "enum", "errno", "fcntl", "fileinput",
   "fnmatch", "fractions", "ftplib", "functools", "gc", "getpass", "glob",
   "gzip", "hashlib", "heapq", "hmac", "html", "http", "importlib",
   "inspect", "io", "itertools", "json", "keyword", "linecache", "locale",
   "logging", "lzma", "math", "mimetypes", "multiprocessing", "numbers",
   "operator", "os", "pathlib", "pdb", "pickle", "pkgutil", "platform",
   "pprint", "profile", "queue", "random", "re", "readline", "reprlib",
   "secrets", "select", "shelve", "shlex", "shutil", "signal", "site",
   "smtplib", "socket", "sqlite3", "ssl", "stat", "statistics", "string",
   "struct", "subprocess", "sys", "syslog", "tempfile", "textwrap",
   "threading", "time", "timeit", "tkinter", "tomllib", "trace", "traceback",
   "types", "typing", "unittest", "urllib", "uuid", "venv", "warnings",
   "weakref", "webbrowser", "xml", "xmlrpc", "zipfile", "zipimport", "zlib",
   "_thread"}

classify_python(specifier) ==
  IF StartsWith(specifier, ".") THEN "local"
  ELSE IF Split(specifier, ".")[1] \in PYTHON_STDLIB THEN "builtin"
  ELSE "external"

\* PARSER_MAP[lang].classify
classify(lang, specifier) ==
  IF lang = "javascript" THEN classify_javascript(specifier)
  ELSE classify_python(specifier)

RECURSIVE CollectForm(_, _, _)
\* one `while ((match = re.exec(stripped)) !== null) deps.add(match[1])` loop:
\* the specifiers of the statements of one syntactic form, in text order
CollectForm(src, form, deps) ==
  IF Len(src) = 0 THEN deps
  ELSE CollectForm(Tail(src), form,
                   IF src[1].form = form THEN SetAdd(deps, src[1].spec) ELSE deps)

\* A source text is a sequence of well-formed import statements, one per line,
\* each [form, spec].  javascript parse runs its four patterns one after another.
parse_javascript(src) ==
  CollectForm(src, "dynamic",
    CollectForm(src, "require",
      CollectForm(src, "export",
        CollectForm(src, "import", <<>>))))

\* python parse: `from X import` first, then `import X`
parse_python(src) ==
  CollectForm(src, "pyimport", CollectForm(src, "from", <<>>))

\* PARSER_MAP[lang].parse
parse(lang, src) ==
  IF lang = "javascript" THEN parse_javascript(src) ELSE parse_python(src)

-----------------------------------------------------------------------------
(* resolveLocal.                                                           *)

RECURSIVE TryExtensions(_, _, _)
\* for (const ext of exts): the first target + ext that is a regular file
TryExtensions(target, exts, rootDir) ==
  IF Len(exts) = 0 THEN Null
  ELSE LET withExt == target \o exts[1] IN
    IF existsNormal(withExt) /\ isFile(withExt) THEN relative(rootDir, withExt)
    ELSE TryExtensions(target, Tail(exts), rootDir)

RECURSIVE TryIndex(_, _, _)
\* for (const ext of exts): the first target/index<ext> that exists
TryIndex(target, exts, rootDir) ==
  IF Len(exts) = 0 THEN Null
  ELSE LET indexFile == join(target, "index" \o exts[1]) IN
    IF existsNormal(indexFile) THEN relative(rootDir, indexFile)
    ELSE TryIndex(target, Tail(exts), rootDir)

\* a mutant of resolveLocal: the directory index is tried before the extensions
resolveLocal_indexFirst(specifier, fromFile, rootDir) ==
  LET dir == dirname(fromFile)
      target == resolve(dir, specifier)
      lang == detectLanguage(fromFile)
      exts == IF lang # Null THEN EXTENSIONS[lang] ELSE <<>>
      index == IF existsNormal(target) /\ isDirectory(target)
               THEN TryIndex(target, exts, rootDir) ELSE Null
  IN IF existsNormal(target) /\ isFile(target) THEN relative(rootDir, target)
     ELSE IF index # Null THEN index
     ELSE TryExtensions(target, exts, rootDir)

resolveLocal(specifier, fromFile, rootDir) ==
  LET dir == dirname(fromFile)
      target == resolve(dir, specifier)
      lang == detectLanguage(fromFile)
      exts == IF lang # Null THEN EXTENSIONS[lang] ELSE <<>>
      withExt == TryExtensions(target, exts, rootDir)
  IN IF existsNormal(target) /\ isFile(target) THEN relative(rootDir, target)
     ELSE IF withExt # Null THEN withExt
     ELSE IF existsNormal(target) /\ isDirectory(target)
          THEN TryIndex(target, exts, rootDir)
     ELSE Null

-----------------------------------------------------------------------------
(* buildGraph.                                                             *)

NoResult == [returned |-> FALSE]

\* a destructured option with its default: `{ name = dflt } = options`
Default(opt, dflt) == IF opt = <<>> THEN dflt ELSE opt[1]

\* mutants of the defaults: edges included by default, no traversal by default
includeBuiltin_never == FALSE
includeExternal_defaultTrue == Default(options.includeExternal, TRUE)
maxDepth_defaultZero == Default(options.maxDepth, 0)

rootDir == options.rootDir
includeExternal == Default(options.includeExternal, FALSE)
includeBuiltin == Default(options.includeBuiltin, FALSE)
maxDepth == Default(options.maxDepth, Infinity)

\* entries.map(e => ({ file: isAbsolute(e) ? e : resolve(rootDir, e), depth: 0 }))
EntryItem(e) ==
  [file |-> IF isAbsolute(e) THEN e ELSE resolve(rootDir, e), depth |-> 0]

\* a mutant of AlreadyVisited: the visited check is lost
AlreadyVisited_never(relPath) == FALSE

\* `if (visited.has(relPath)) continue`
AlreadyVisited(relPath) == relPath \in visited

\* mutants of ShouldEnqueue: the bound off by one, either way
ShouldEnqueue_tooEarly(depth) == depth + 1 < Default(options.maxDepth, Infinity)
ShouldEnqueue_inclusive(depth) == depth <= Default(options.maxDepth, Infinity)

\* `if (depth < maxDepth)` guarding queue.push
ShouldEnqueue(depth) == depth < maxDepth

\* a mutant of ChildDepth: the child is enqueued at its parent's depth
ChildDepth_same(depth) == depth

\* `depth: depth + 1`
ChildDepth(depth) == depth + 1

LocalEdge(from, to, dep) == [from |-> from, to |-> to, specifier |-> dep, type |-> "local"]

ExternalEdge(from, dep) ==
  [from |-> from, to |-> "[ext] " \o dep, specifier |-> dep, type |-> "external"]

BuiltinEdge(from, dep) ==
  [from |-> from, to |-> "[builtin] " \o dep, specifier |-> dep, type |-> "builtin"]

\* a mutant of OnUnresolved: the failed import also gets an edge to its specifier
OnUnresolved_alsoEdge(st, relPath, dep) ==
  [st EXCEPT !.unresolved = Append(@, [from |-> relPath, specifier |-> dep]),
             !.edges = Append(@, [from |-> relPath, to |-> dep, specifier |-> dep,
                                  type |-> "local"])]

\* `unresolved.push({ from: relPath, specifier: dep })`, and nothing else
OnUnresolved(st, relPath, dep) ==
  [st EXCEPT !.unresolved = Append(@, [from |-> relPath, specifier |-> dep])]

\* the body of `for (const dep of deps)` for one dep; st holds the collections
\* the body updates
ProcessDep(st, dep, file, relPath, depth, lang) ==
  LET type == classify(lang, dep) IN
  IF type = "local" THEN
    LET resolved == resolveLocal(dep, file, rootDir) IN
    IF resolved # Null /\ resolved # ""
    THEN [st EXCEPT !.edges = Append(@, LocalEdge(relPath, resolved, dep)),
                    !.queue = IF ShouldEnqueue(depth)
                              THEN Append(@, [file |-> resolve(rootDir, resolved),
                                              depth |-> ChildDepth(depth)])
                              ELSE @]
    ELSE OnUnresolved(st, relPath, dep)
  ELSE IF type = "external" THEN
    [st EXCEPT !.externals = SetAdd(@, dep),
               !.edges = IF includeExternal THEN Append(@, ExternalEdge(relPath, dep)) ELSE @]
  ELSE IF type = "builtin" THEN
    [st EXCEPT !.builtins = SetAdd(@, dep),
               !.edges = IF includeBuiltin THEN Append(@, BuiltinEdge(relPath, dep)) ELSE @]
  ELSE st

RECURSIVE ProcessDeps(_, _, _, _, _, _)
ProcessDeps(st, deps, file, relPath, depth, lang) ==
  IF Len(deps) = 0 THEN st
  ELSE ProcessDeps(ProcessDep(st, deps[1], file, relPath, depth, lang),
                   Tail(deps), file, relPath, depth, lang)

\* `const queue = entries.map(...)`, the empty collections
Call ==
  /\ pc = "start"
  /\ queue' = [i \in 1..Len(entries) |-> EntryItem(entries[i])]
  /\ pc' = "loop"
  /\ UNCHANGED <<fs, entries, options, visited, nodes, edges, externals, builtins,
                 unresolved, scanned, result, arg, ret>>

HeadFile == queue[1].file
HeadDepth == queue[1].depth
HeadRel == relative(rootDir, HeadFile)

\* queue.shift() of a path already in visited
SkipVisited ==
  /\ pc = "loop" /\ Len(queue) > 0
  /\ AlreadyVisited(HeadRel)
  /\ queue' = Tail(queue)
  /\ UNCHANGED <<fs, entries, options, pc, visited, nodes, edges, externals, builtins,
                 unresolved, scanned, result, arg, ret>>

\* `if (!fs.existsSync(file)) continue`
SkipMissing ==
  /\ pc = "loop" /\ Len(queue) > 0
  /\ ~AlreadyVisited(HeadRel)
  /\ ~existsSync(HeadFile)
  /\ queue' = Tail(queue)
  /\ visited' = visited \cup {HeadRel}
  /\ UNCHANGED <<fs, entries, options, pc, nodes, edges, externals, builtins,
                 unresolved, scanned, result, arg, ret>>

\* `if (!lang) continue`
SkipNoLanguage ==
  /\ pc = "loop" /\ Len(queue) > 0
  /\ ~AlreadyVisited(HeadRel)
  /\ existsSync(HeadFile)
  /\ detectLanguage(HeadFile) = Null
  /\ queue' = Tail(queue)
  /\ visited' = visited \cup {HeadRel}
  /\ UNCHANGED <<fs, entries, options, pc, nodes, edges, externals, builtins,
                 unresolved, scanned, result, arg, ret>>

\* fs.readFileSync of a directory throws EISDIR; buildGraph has no try/catch
ReadThrows ==
  /\ pc = "loop" /\ Len(queue) > 0
  /\ ~AlreadyVisited(HeadRel)
  /\ existsSync(HeadFile)
  /\ detectLanguage(HeadFile) # Null
  /\ ~statIsFile(HeadFile)
  /\ queue' = Tail(queue)
  /\ visited' = visited \cup {HeadRel}
  /\ pc' = "error"
  /\ UNCHANGED <<fs, entries, options, nodes, edges, externals, builtins,
                 unresolved, scanned, result, arg, ret>>

\* one full iteration: read, parse, nodes.set, the loop over deps
Scan ==
  /\ pc = "loop" /\ Len(queue) > 0
  /\ ~AlreadyVisited(HeadRel)
  /\ existsSync(HeadFile)
  /\ detectLanguage(HeadFile) # Null
  /\ statIsFile(HeadFile)
  /\ LET lang == detectLanguage(HeadFile)
         source == fs[resolve("/", HeadFile)].src
         deps == parse(lang, source)
     IN \E st \in {ProcessDeps([edges |-> edges, queue |-> Tail(queue),
                                unresolved |-> unresolved, externals |-> externals,
                                builtins |-> builtins],
                               deps, HeadFile, HeadRel, HeadDepth, lang)} :
        /\ visited' = visited \cup {HeadRel}
        /\ scanned' = Append(scanned, HeadRel)
        /\ nodes' = IF \E i \in 1..Len(nodes) : nodes[i].path = HeadRel
                    THEN [i \in 1..Len(nodes) |->
                            IF nodes[i].path = HeadRel
                            THEN [path |-> HeadRel, language |-> lang, depCount |-> Len(deps)]
                            ELSE nodes[i]]
                    ELSE Append(nodes, [path |-> HeadRel, language |-> lang,
                                        depCount |-> Len(deps)])
        /\ edges' = st.edges
        /\ queue' = st.queue
        /\ unresolved' = st.unresolved
        /\ externals' = st.externals
        /\ builtins' = st.builtins
  /\ UNCHANGED <<fs, entries, options, pc, result, arg, ret>>

\* the while loop ends; `return { nodes: [...nodes.values()], edges, ... }`
Return ==
  /\ pc = "loop" /\ Len(queue) = 0
  /\ result' = [returned |-> TRUE, nodes |-> nodes, edges |-> edges,
                externals |-> SortStrings(externals),
                builtins |-> SortStrings(builtins),
                unresolved |-> unresolved]
  /\ pc' = "done"
  /\ UNCHANGED <<fs, entries, options, queue, visited, nodes, edges, externals,
                 builtins, unresolved, scanned, arg, ret>>

-----------------------------------------------------------------------------
(* The disks, entry lists and options the model runs buildGraph on.        *)

Root == "/r"

SeqsUpTo(S, n) == UNION {[1..k -> S] : k \in 0..n}

Stmt(form, spec) == [form |-> form, spec |-> spec]

File(src) == [kind |-> "file", src |-> src]
Dir == [kind |-> "dir", src |-> <<>>]

\* the statements a.js is written from when the model varies what one file imports
PoolA ==
  {Stmt("require", "./b"), Stmt("import", "./b.js"), Stmt("import", "./lib"),
   Stmt("require", "./missing"), Stmt("import", "./data.json"),
   Stmt("import", "express"), Stmt("require", "fs")}

\* the statements a.js is written from when the model varies the shape of the graph
PoolT == {Stmt("require", "./b"), Stmt("require", "./c")}

\* the sources b.js may have
SourcesB ==
  {<<>>, <<Stmt("require", "./a")>>, <<Stmt("require", "./c")>>,
   <<Stmt("import", "./lib")>>,
   <<Stmt("dynamic", "./m.py"), Stmt("require", "node:path")>>}

SourceM == <<Stmt("pyimport", "os"), Stmt("from", ".utils"), Stmt("pyimport", "numpy")>>

SourceIndex == <<Stmt("export", "../c")>>

\* index: what /r/lib/index.js is ("none", "file" or "dir"); libjs: whether
\* /r/lib.js exists
Disk(srcA, srcB, index, libjs) ==
  LET dom == {"/", "/r", "/r/lib", "/r/a.js", "/r/b.js", "/r/c.js", "/r/m.py",
              "/r/data.json"}
             \cup (IF index # "none" THEN {"/r/lib/index.js"} ELSE {})
             \cup (IF libjs THEN {"/r/lib.js"} ELSE {})
  IN [p \in dom |->
        IF p = "/r/a.js" THEN File(srcA)
        ELSE IF p = "/r/b.js" THEN File(srcB)
        ELSE IF p = "/r/m.py" THEN File(SourceM)
        ELSE IF p \in {"/r/c.js", "/r/data.json", "/r/lib.js"} THEN File(<<>>)
        ELSE IF p = "/r/lib/index.js"
             THEN (IF index = "file" THEN File(SourceIndex) ELSE Dir)
        ELSE Dir]

EntryPool == {"a.js", "/r/a.js", "nope.js"}

EntryLists == SeqsUpTo(EntryPool, MaxEntries) \ {<<>>}

DepthOptions == {<<>>} \cup {<<d>> : d \in 0..MaxDepthOpt}

FlagOptions == {<<>>, <<TRUE>>, <<FALSE>>}

Options(d, x, b) ==
  [rootDir |-> Root, includeExternal |-> x, includeBuiltin |-> b, maxDepth |-> d]

NoArg == [fn |-> "none"]
NoRet == "<pending>"

\* one file importing anything, under every combination of the include flags
InitImports ==
  /\ \E srcA \in SeqsUpTo(PoolA, MaxImports), index \in {"none", "file", "dir"},
        libjs \in BOOLEAN :
       fs = Disk(srcA, <<>>, index, libjs)
  /\ entries = <<"a.js">>
  /\ \E x \in FlagOptions, b \in FlagOptions : options = Options(<<>>, x, b)

\* graphs of several files (chains, cycles, diamonds), under every entry list
\* and every depth limit
InitTraversal ==
  /\ \E srcA \in SeqsUpTo(PoolT, MaxImports), srcB \in SourcesB :
       fs = Disk(srcA, srcB, "file", FALSE)
  /\ entries \in EntryLists
  /\ \E d \in DepthOptions : options = Options(d, <<>>, <<>>)

\* a file whose name starts like the label of an external edge
LabelFile == "[ext] chart.js"

\* the statements a.js is written from when the disk holds LabelFile
PoolL ==
  {Stmt("import", "chart.js"), Stmt("import", "axios"), Stmt("require", "./" \o LabelFile)}

\* a disk with a file whose name reads like a label, given as an entry or
\* imported, next to an import of the package the label names
InitLabels ==
  /\ \E srcA \in SeqsUpTo(PoolL, MaxImports) :
       fs = Disk(srcA, <<>>, "none", FALSE) @@ (resolve(Root, LabelFile) :> File(<<>>))
  /\ entries \in {<<"a.js">>, <<"a.js", LabelFile>>}
  /\ \E x \in FlagOptions : options = Options(<<>>, x, <<>>)

Init ==
  /\ InitImports \/ InitTraversal \/ InitLabels
  /\ pc = "start"
  /\ queue = <<>>
  /\ visited = {}
  /\ nodes = <<>>
  /\ edges = <<>>
  /\ externals = <<>>
  /\ builtins = <<>>
  /\ unresolved = <<>>
  /\ scanned = <<>>
  /\ result = NoResult
  /\ arg = NoArg
  /\ ret = NoRet

Next ==
  \/ Call
  \/ SkipVisited
  \/ SkipMissing
  \/ SkipNoLanguage
  \/ ReadThrows
  \/ Scan
  \/ Return

Spec == Init /\ [][Next]_vars

-----------------------------------------------------------------------------
(* What the claims speak of, defined on the disk alone.                    *)

NodePaths == [i \in 1..Len(nodes) |-> nodes[i].path]

NoDuplicates(seq) == \A i, j \in 1..Len(seq) : seq[i] = seq[j] => i = j

\* the absolute path an entry names
EntryPath(e) == resolve(Root, e)

\* a path buildGraph can turn into a node: a regular file of a known language
Scannable(p) == existsNormal(p) /\ isFile(p) /\ detectLanguage(p) # Null

\* the specifiers a file's source imports
ImportsOf(p) == Range(parse(detectLanguage(p), fs[p].src))

\* the local specifiers a file's source imports
LocalImports(p) == {d \in ImportsOf(p) : classify(detectLanguage(p), d) = "local"}

\* the files one local edge away from p
LocalTargets(p) ==
  {resolve(Root, r) : r \in {resolveLocal(d, p, Root) : d \in LocalImports(p)} \ {Null}}

RECURSIVE Grow(_, _, _)
\* reached, plus what lies at most k local edges beyond its frontier
Grow(reached, frontier, k) ==
  IF k = 0 \/ frontier = {} THEN reached
  ELSE \* one evaluation of the new frontier, bound by CHOOSE
       LET new == CHOOSE n \in {UNION {LocalTargets(p) : p \in {q \in frontier : Scannable(q)}}
                                  \ reached} : TRUE
       IN Grow(reached \cup new, new, k - 1)

EntryPaths == {EntryPath(entries[i]) : i \in 1..Len(entries)} \cap DOMAIN fs

\* the existing paths at most k local edges away from an entry
ReachWithin(k) == Grow(EntryPaths, EntryPaths, k)

\* the existing paths any number of local edges away from an entry
Reachable == ReachWithin(Cardinality(DOMAIN fs))

\* the disk on which a.js and b.js import each other and nothing else
MutualImports ==
  /\ fs["/r/a.js"].src = <<Stmt("require", "./b")>>
  /\ fs["/r/b.js"].src = <<Stmt("require", "./a")>>

\* the disk with the chain a.js -> b.js -> c.js
Chain ==
  /\ fs["/r/a.js"].src = <<Stmt("require", "./b")>>
  /\ fs["/r/b.js"].src = <<Stmt("require", "./c")>>
  /\ fs["/r/c.js"].src = <<>>

EntriesNameA == \E i \in 1..Len(entries) : EntryPath(entries[i]) = "/r/a.js"

-----------------------------------------------------------------------------
(* C1 *)

\* Why the loop ends: each iteration either adds a path to visited, which stays
\* within the paths of the disk and of the entries, or leaves visited alone and
\* shortens the queue.
LoopVariant ==
  [][pc = "loop" /\ pc' = "loop" =>
       \/ visited \subseteq visited' /\ visited' # visited
       \/ visited' = visited /\ Len(queue') < Len(queue)]_vars

VisitedBounded ==
  visited \subseteq {relative(Root, p) : p \in DOMAIN fs}
                    \cup {relative(Root, EntryPath(entries[i])) : i \in 1..Len(entries)}

\* C1: buildGraph's loop ends only with the queue empty and a graph returned
\* (it never ends any other way), and the number of files scanned never exceeds
\* the number of distinct files reachable from the entries.
C1_TerminatesWithGraph ==
  /\ pc \in {"done", "error"} => pc = "done" /\ Len(queue) = 0 /\ result.returned
  /\ Len(scanned) <= Cardinality(Reachable)

-----------------------------------------------------------------------------
(* C2 *)

\* C2: within one call each root-relative path is scanned at most once and
\* yields at most one node, however the entries are spelled and however often a
\* path is queued; for a.js and b.js importing each other the result has exactly
\* the 2 nodes a.js, b.js and exactly the 2 edges a.js -> b.js, b.js -> a.js.
C2_ScannedOnce ==
  /\ NoDuplicates(scanned)
  /\ NoDuplicates(NodePaths)
  /\ NodePaths = scanned
  /\ (pc = "done" /\ MutualImports /\ EntriesNameA /\ maxDepth >= 1) =>
       /\ [i \in 1..Len(result.nodes) |-> result.nodes[i].path] = <<"a.js", "b.js">>
       /\ result.edges = <<LocalEdge("a.js", "b.js", "./b"), LocalEdge("b.js", "a.js", "./a")>>

\* a.js and b.js import each other, a.js is given twice (root-relative and
\* absolute), and the call has returned after skipping re-queued paths
C2_Witness ==
  /\ pc = "done" /\ MutualImports
  /\ entries = <<"a.js", "/r/a.js">>
  /\ Len(result.nodes) = 2

-----------------------------------------------------------------------------
(* C3 *)

ResultPaths == [i \in 1..Len(result.nodes) |-> result.nodes[i].path]

Occurrences(seq, x) == Cardinality({i \in 1..Len(seq) : seq[i] = x})

\* C3 as stated: after buildGraph returns, every file reachable from an entry
\* over local edges within maxDepth hops appears exactly once in nodes.
C3_EveryReachableFileIsNode ==
  pc = "done" =>
    \A p \in ReachWithin(maxDepth) : Occurrences(ResultPaths, relative(Root, p)) = 1

\* C3 amended: after buildGraph returns, every file of a recognized language
\* reachable from an entry over local edges within maxDepth hops appears
\* exactly once in nodes.
C3_EveryReachableSourceIsNode ==
  pc = "done" =>
    \A p \in ReachWithin(maxDepth) :
      detectLanguage(p) # Null => Occurrences(ResultPaths, relative(Root, p)) = 1

\* returned with maxDepth = 1 from a.js, which imports b.js and c.js: the files
\* within one hop are a.js, b.js, c.js and each is a node
C3_Witness ==
  /\ pc = "done" /\ options.maxDepth = <<1>> /\ entries = <<"a.js">>
  /\ ReachWithin(maxDepth) = {"/r/a.js", "/r/b.js", "/r/c.js"}
  /\ ResultPaths = <<"a.js", "b.js", "c.js">>

-----------------------------------------------------------------------------
(* C4 *)

Abs(relPath) == resolve(Root, relPath)

\* the queue items a step appended
Enqueued == SubSeq(queue', Len(queue), Len(queue'))

\* C4: every resolved local import of a scanned file has its local edge, whatever
\* the depth; a scan enqueues the resolved targets, at depth + 1, only when the
\* scanned item's depth is below maxDepth (so no queued item lies deeper than
\* maxDepth); for the chain a.js -> b.js -> c.js built from a.js with maxDepth = 1
\* the nodes are a.js, b.js (c.js is never scanned) and the edges a.js -> b.js,
\* b.js -> c.js.
C4_EdgeAlwaysEnqueueBelowMaxDepth ==
  /\ [](/\ \A i \in 1..Len(queue) : queue[i].depth <= maxDepth
        /\ \A f \in Range(scanned) : \A d \in LocalImports(Abs(f)) :
             resolveLocal(d, Abs(f), Root) # Null =>
               LocalEdge(f, resolveLocal(d, Abs(f), Root), d) \in Range(edges)
        /\ (pc = "done" /\ Chain /\ entries = <<"a.js">> /\ options.maxDepth = <<1>>) =>
             /\ ResultPaths = <<"a.js", "b.js">>
             /\ "c.js" \notin Range(scanned)
             /\ result.edges = <<LocalEdge("a.js", "b.js", "./b"),
                                 LocalEdge("b.js", "c.js", "./c")>>)
  /\ [][scanned' # scanned =>
          /\ \A i \in 1..Len(Enqueued) :
               /\ Enqueued[i].depth = HeadDepth + 1
               /\ Enqueued[i].file \in LocalTargets(resolve("/", HeadFile))
          /\ Len(Enqueued) > 0 => HeadDepth < maxDepth
          /\ HeadDepth < maxDepth =>
               {Enqueued[i].file : i \in 1..Len(Enqueued)} = LocalTargets(resolve("/", HeadFile))
     ]_vars

\* the chain built from a.js with maxDepth = 1 has returned: b.js -> c.js is an
\* edge and c.js is no node
C4_Witness ==
  /\ pc = "done" /\ Chain /\ entries = <<"a.js">> /\ options.maxDepth = <<1>>
  /\ LocalEdge("b.js", "c.js", "./c") \in Range(result.edges)
  /\ "c.js" \notin Range(ResultPaths)

-----------------------------------------------------------------------------
(* C5 *)

\* C5 as stated: with maxDepth unbounded, every local edge of the returned
\* graph has its `to` among the nodes.
C5_LocalEdgeTargetsAreNodes ==
  (pc = "done" /\ options.maxDepth = <<>>) =>
    \A e \in Range(result.edges) : e.type = "local" => e.to \in Range(ResultPaths)

\* C5 amended: with maxDepth unbounded, every local edge of the returned graph
\* whose `to` has the extension of a recognized language has its `to` among the
\* nodes.
C5_LocalEdgeSourceTargetsAreNodes ==
  (pc = "done" /\ options.maxDepth = <<>>) =>
    \A e \in Range(result.edges) :
      (e.type = "local" /\ detectLanguage(e.to) # Null) => e.to \in Range(ResultPaths)

\* returned with maxDepth unbounded and local edges to b.js (a node) and to
\* data.json (no node)
C5_Witness ==
  /\ pc = "done" /\ options.maxDepth = <<>>
  /\ LocalEdge("a.js", "b.js", "./b") \in Range(result.edges)
  /\ LocalEdge("a.js", "data.json", "./data.json") \in Range(result.edges)
  /\ "b.js" \in Range(ResultPaths)

-----------------------------------------------------------------------------
(* C6 *)

\* the specifiers of the scanned files that classify as type
ScannedOfType(type) ==
  UNION {{d \in ImportsOf(Abs(f)) : classify(detectLanguage(Abs(f)), d) = type} :
           f \in Range(scanned)}

EdgesOfType(type) == {e \in Range(edges) : e.type = type}

\* C6: every external (builtin) specifier of a scanned file is in externals
\* (builtins) whatever the flags; an edge of type external (builtin) exists if and
\* only if includeExternal (includeBuiltin) is true and such a specifier was
\* scanned; a flag left out counts as false.
C6_SetsAlwaysEdgesByFlag ==
  /\ Range(externals) = ScannedOfType("external")
  /\ Range(builtins) = ScannedOfType("builtin")
  /\ EdgesOfType("external") # {} <=> (includeExternal /\ ScannedOfType("external") # {})
  /\ EdgesOfType("builtin") # {} <=> (includeBuiltin /\ ScannedOfType("builtin") # {})
  /\ options.includeExternal \in {<<>>, <<FALSE>>} => EdgesOfType("external") = {}
  /\ options.includeBuiltin \in {<<>>, <<FALSE>>} => EdgesOfType("builtin") = {}
  /\ pc = "done" =>
       /\ Range(result.externals) = ScannedOfType("external")
       /\ Range(result.builtins) = ScannedOfType("builtin")
       /\ {e \in Range(result.edges) : e.type = "external"} = EdgesOfType("external")

\* returned with includeExternal left out and includeBuiltin true: express is
\* in externals without an edge, fs in builtins with one
C6_Witness ==
  /\ pc = "done"
  /\ options.includeExternal = <<>> /\ options.includeBuiltin = <<TRUE>>
  /\ result.externals = <<"express">> /\ result.builtins = <<"fs">>
  /\ result.edges = <<BuiltinEdge("a.js", "fs")>>

-----------------------------------------------------------------------------
(* C7 *)

\* the local specifiers of file p that resolveLocal maps to no file
UnresolvedImports(p) == {d \in LocalImports(p) : resolveLocal(d, p, Root) = Null}

Appended(old, new) == SubSeq(new, Len(old) + 1, Len(new))

\* C7: scanning a file with local specifiers that resolveLocal cannot map to a
\* file appends exactly one record {from: the file, specifier} per such
\* specifier to unresolved, emits no edge for it, enqueues nothing for it and
\* raises no error.
C7_UnresolvedRecorded ==
  [][scanned' # scanned =>
       LET f == resolve("/", HeadFile)
           missing == UnresolvedImports(f)
           records == Appended(unresolved, unresolved')
           newEdges == Appended(edges, edges')
       IN /\ pc' = "loop"
          /\ Len(records) = Cardinality(missing)
          /\ Range(records) = {[from |-> HeadRel, specifier |-> d] : d \in missing}
          /\ \A e \in Range(newEdges) : e.specifier \notin missing
          /\ Len(Enqueued) <= Cardinality(LocalImports(f)) - Cardinality(missing)
          /\ \A i \in 1..Len(Enqueued) : existsNormal(Enqueued[i].file)
  ]_vars

\* returned after a.js imported './missing': one record, no edge
C7_Witness ==
  /\ pc = "done"
  /\ result.unresolved = <<[from |-> "a.js", specifier |-> "./missing"]>>
  /\ result.edges = <<>>
  /\ Range(scanned) = {"a.js"}

-----------------------------------------------------------------------------
(* C8 *)

\* C8: buildGraph never ends in an error, whatever the entries and the disk;
\* a path that does not exist or has no recognized language is skipped and
\* never becomes a node.
C8_NoFatalError ==
  /\ pc # "error"
  /\ \A p \in Range(NodePaths) : existsNormal(Abs(p)) /\ detectLanguage(Abs(p)) # Null

-----------------------------------------------------------------------------
(* Direct calls of resolveLocal and of classify.                           *)

\* no buildGraph call is in progress
NoGraph ==
  /\ entries = <<>>
  /\ options = Options(<<>>, <<>>, <<>>)
  /\ queue = <<>>
  /\ visited = {}
  /\ nodes = <<>>
  /\ edges = <<>>
  /\ externals = <<>>
  /\ builtins = <<>>
  /\ unresolved = <<>>
  /\ scanned = <<>>
  /\ result = NoResult

\* what /r/lib is: nothing, a regular file, or a directory with or without
\* index.js (a file or a directory) and index.ts
LibShapes ==
  {[lib |-> "none", indexjs |-> "none", indexts |-> FALSE],
   [lib |-> "file", indexjs |-> "none", indexts |-> FALSE]}
  \cup {[lib |-> "dir", indexjs |-> j, indexts |-> t] :
          j \in {"none", "file", "dir"}, t \in BOOLEAN}

ResolveDisk(shape, libjs, libts, libpy) ==
  LET dom == {"/", "/r", "/r/a.js"}
             \cup (IF shape.lib # "none" THEN {"/r/lib"} ELSE {})
             \cup (IF shape.indexjs # "none" THEN {"/r/lib/index.js"} ELSE {})
             \cup (IF shape.indexts THEN {"/r/lib/index.ts"} ELSE {})
             \cup (IF libjs THEN {"/r/lib.js"} ELSE {})
             \cup (IF libts THEN {"/r/lib.ts"} ELSE {})
             \cup (IF libpy THEN {"/r/lib.py"} ELSE {})
  IN [p \in dom |->
        IF p \in {"/", "/r"} THEN Dir
        ELSE IF p = "/r/lib" THEN (IF shape.lib = "dir" THEN Dir ELSE File(<<>>))
        ELSE IF p = "/r/lib/index.js"
             THEN (IF shape.indexjs = "dir" THEN Dir ELSE File(<<>>))
        ELSE File(<<>>)]

ResolveSpecifiers ==
  {"./lib", "./lib.js", "./lib.ts", "../r/lib", "/r/lib", "./lib/", "./lib/index",
   "./missing"}

ResolveFromFiles == {"/r/a.js", "/r/m.py", "/r/sub/x.ts", "/r/notes.txt"}

InitResolve ==
  /\ \E shape \in LibShapes, libjs \in BOOLEAN, libts \in BOOLEAN, libpy \in BOOLEAN :
       fs = ResolveDisk(shape, libjs, libts, libpy)
  /\ \E sp \in ResolveSpecifiers, from \in ResolveFromFiles :
       arg = [fn |-> "resolveLocal", specifier |-> sp, fromFile |-> from]
  /\ ret = NoRet
  /\ pc = "call"
  /\ NoGraph

\* resolveLocal(specifier, fromFile, rootDir)
ResolveCall ==
  /\ pc = "call" /\ arg.fn = "resolveLocal"
  /\ ret' = resolveLocal(arg.specifier, arg.fromFile, Root)
  /\ pc' = "returned"
  /\ UNCHANGED <<fs, entries, options, queue, visited, nodes, edges, externals,
                 builtins, unresolved, scanned, result, arg>>

SpecResolve == InitResolve /\ [][ResolveCall]_vars

\* javascript specifiers: what the quotes of an import may hold
JsSpecifiers ==
  {pre \o name \o suf :
     pre \in {"", "./", "../", "/", ".", "node:", "@"},
     name \in {"fs", "path", "test", "os", "express", "scope"},
     suf \in {"", "/promises", "/pkg"}}

\* python specifiers: the parser's patterns yield only letters, digits, "_" and "."
PySpecifiers ==
  {pre \o name \o suf :
     pre \in {"", ".", "..", "..."},
     name \in {"os", "sys", "pathlib", "numpy", "requests", "fs"},
     suf \in {"", ".path"}}
  \cup {".", ".."}

InitClassify ==
  /\ fs = ResolveDisk([lib |-> "none", indexjs |-> "none", indexts |-> FALSE],
                      FALSE, FALSE, FALSE)
  /\ \/ \E sp \in JsSpecifiers : arg = [fn |-> "classify", lang |-> "javascript", specifier |-> sp]
     \/ \E sp \in PySpecifiers : arg = [fn |-> "classify", lang |-> "python", specifier |-> sp]
  /\ ret = NoRet
  /\ pc = "call"
  /\ NoGraph

\* PARSER_MAP[lang].classify(specifier)
ClassifyCall ==
  /\ pc = "call" /\ arg.fn = "classify"
  /\ ret' = classify(arg.lang, arg.specifier)
  /\ pc' = "returned"
  /\ UNCHANGED <<fs, entries, options, queue, visited, nodes, edges, externals,
                 builtins, unresolved, scanned, result, arg>>

SpecClassify == InitClassify /\ [][ClassifyCall]_vars

-----------------------------------------------------------------------------
(* C9 *)

RegularFileAt(p) == p \in DOMAIN fs /\ fs[p].kind = "file"

DirectoryAt(p) == p \in DOMAIN fs /\ fs[p].kind = "dir"

\* the specifier resolved against the directory of the originating file
TargetOf(specifier, fromFile) == resolve(dirname(fromFile), specifier)

ExtensionsOf(fromFile) ==
  IF detectLanguage(fromFile) = Null THEN <<>> ELSE EXTENSIONS[detectLanguage(fromFile)]

\* the paths resolution may answer, in the order of the three steps
Candidates(specifier, fromFile) ==
  LET t == TargetOf(specifier, fromFile)
      exts == ExtensionsOf(fromFile)
  IN <<t>> \o [i \in 1..Len(exts) |-> t \o exts[i]]
          \o [i \in 1..Len(exts) |-> t \o "/index" \o exts[i]]

\* whether candidate i answers: a regular file for steps 1 and 2, an existing
\* index<ext> of a target that is a directory for step 3
Succeeds(specifier, fromFile, i) ==
  LET c == Candidates(specifier, fromFile)[i]
  IN IF i <= 1 + Len(ExtensionsOf(fromFile)) THEN RegularFileAt(c)
     ELSE DirectoryAt(TargetOf(specifier, fromFile)) /\ c \in DOMAIN fs

Successes(specifier, fromFile) ==
  {i \in 1..Len(Candidates(specifier, fromFile)) : Succeeds(specifier, fromFile, i)}

\* C9: resolveLocal returns the first success among the exact target, target +
\* ext in the language's extension order, and index<ext> inside a target
\* directory in the same order, and null exactly when none succeeds; a
\* specifier naming an existing file with its extension resolves to that file,
\* and './lib' resolves to lib.js when lib.js and lib/index.js both exist.
C9_FirstSuccessWins ==
  (pc = "returned" /\ arg.fn = "resolveLocal") =>
    LET ok == Successes(arg.specifier, arg.fromFile)
        first == CHOOSE i \in ok : \A j \in ok : i <= j
    IN /\ ok = {} <=> ret = Null
       /\ ok # {} => ret = relative(Root, Candidates(arg.specifier, arg.fromFile)[first])
       /\ (arg.specifier = "./lib.js" /\ arg.fromFile = "/r/a.js" /\ RegularFileAt("/r/lib.js"))
            => ret = "lib.js"
       /\ (arg.specifier = "./lib" /\ arg.fromFile = "/r/a.js" /\ RegularFileAt("/r/lib.js")
             /\ RegularFileAt("/r/lib/index.js"))
            => ret = "lib.js"

\* './lib' from a.js was resolved to lib.ts on a disk that has lib.ts and
\* lib/index.js but no lib.js: an extension later in the list still beats the
\* index file
C9_Witness ==
  /\ pc = "returned" /\ arg = [fn |-> "resolveLocal", specifier |-> "./lib", fromFile |-> "/r/a.js"]
  /\ "/r/lib.js" \notin DOMAIN fs
  /\ RegularFileAt("/r/lib.ts") /\ RegularFileAt("/r/lib/index.js")
  /\ ret = "lib.ts"

-----------------------------------------------------------------------------
(* C10 *)

RECURSIVE FirstIndexOf(_, _, _)
\* the first index >= i of character c in s, Len(s) + 1 if none
FirstIndexOf(s, c, i) ==
  IF i > Len(s) THEN i ELSE IF Char(s, i) = c THEN i ELSE FirstIndexOf(s, c, i + 1)

\* the text before the first path separator (javascript) or the first "." (python)
LeadingSegment(lang, s) ==
  SubSeq(s, 1, FirstIndexOf(s, IF lang = "javascript" THEN "/" ELSE ".", 1) - 1)

\* a leading ".", ".." or "/" (javascript), any leading dot (python)
HasPathMarker(lang, s) ==
  IF lang = "javascript" THEN Char(s, 1) \in {".", "/"} ELSE Char(s, 1) = "."

StandardLibrary(lang) == IF lang = "javascript" THEN NODE_BUILTINS ELSE PYTHON_STDLIB

\* C10 as stated: local for a path marker; otherwise builtin if and only if the
\* leading segment is in the language's standard-library set; otherwise
\* external (so a name absent from the set is external).
C10_ClassifyByMarkerThenSet ==
  (pc = "returned" /\ arg.fn = "classify") =>
    ret = IF HasPathMarker(arg.lang, arg.specifier) THEN "local"
          ELSE IF LeadingSegment(arg.lang, arg.specifier) \in StandardLibrary(arg.lang)
               THEN "builtin"
          ELSE "external"

\* C10 amended: local for a path marker; otherwise builtin if and only if the
\* leading segment is in the language's standard-library set or, in javascript,
\* the specifier begins with "node:"; otherwise external.  A scoped name
\* ("@...") is always external.
C10_ClassifyByMarkerThenNodePrefixOrSet ==
  (pc = "returned" /\ arg.fn = "classify") =>
    /\ ret = IF HasPathMarker(arg.lang, arg.specifier) THEN "local"
             ELSE IF \/ LeadingSegment(arg.lang, arg.specifier) \in StandardLibrary(arg.lang)
                     \/ arg.lang = "javascript" /\ StartsWith(arg.specifier, "node:")
                  THEN "builtin"
             ELSE "external"
    /\ (arg.lang = "javascript" /\ Char(arg.specifier, 1) = "@") => ret = "external"

\* 'fs/promises' was classified builtin by its leading segment
C10_Witness ==
  /\ pc = "returned"
  /\ arg = [fn |-> "classify", lang |-> "javascript", specifier |-> "fs/promises"]
  /\ ret = "builtin"

-----------------------------------------------------------------------------
(* C13 *)

LabelEdges == {e \in Range(result.edges) : e.type \in {"external", "builtin"}}

LocalEdges == {e \in Range(result.edges) : e.type = "local"}

\* C13: in every returned graph, no edge of type external or builtin has a `to`
\* equal to the path of a node or to the `to` of a local edge.
C13_LabelsNeverCollide ==
  pc = "done" =>
    \A e \in LabelEdges :
      /\ e.to \notin Range(ResultPaths)
      /\ e.to \notin {l.to : l \in LocalEdges}

\* What does hold: a label is the specifier behind a fixed prefix, so it names
\* a node only if that node's path starts with the prefix.
LabelsArePrefixed ==
  pc = "done" =>
    \A e \in LabelEdges :
      e.to = (IF e.type = "external" THEN "[ext] " ELSE "[builtin] ") \o e.specifier

-----------------------------------------------------------------------------
(* C14 *)

IsPrefix(old, new) == Len(old) <= Len(new) /\ SubSeq(new, 1, Len(old)) = old

IndexIn(seq, x) == CHOOSE i \in 1..Len(seq) : seq[i] = x

\* strictly ascending in the order of Array.prototype.sort
Ascending(seq) == \A i, j \in 1..Len(seq) : i < j => StrLess(seq[i], seq[j])

\* the records a step appends to a list
NewRecords(old, new) == SubSeq(new, Len(old) + 1, Len(new))

\* the records are of the file being scanned, and follow the order of the
\* specifiers parse returned for it
InScanOrder(recs) ==
  LET deps == parse(detectLanguage(HeadFile), fs[resolve("/", HeadFile)].src)
  IN /\ \A i \in 1..Len(recs) : recs[i].from = HeadRel /\ recs[i].specifier \in Range(deps)
     /\ \A i, j \in 1..Len(recs) :
          i < j => IndexIn(deps, recs[i].specifier) < IndexIn(deps, recs[j].specifier)

\* C14: the returned graph lists the nodes in the order the files were first
\* scanned; edges and unresolved records are only ever appended, file by file in
\* scan order and within a file in the order of its extracted specifiers, and
\* are returned as they are; externals and builtins are returned strictly
\* ascending (so without duplicates) and hold what was collected.
C14_ResultOrder ==
  /\ [](pc = "done" =>
          /\ ResultPaths = scanned
          /\ result.edges = edges
          /\ result.unresolved = unresolved
          /\ Ascending(result.externals) /\ Range(result.externals) = Range(externals)
          /\ Ascending(result.builtins) /\ Range(result.builtins) = Range(builtins))
  /\ [][/\ IsPrefix(edges, edges') /\ IsPrefix(unresolved, unresolved')
        /\ IsPrefix(NodePaths, [i \in 1..Len(nodes') |-> nodes'[i].path])
        /\ scanned' # scanned =>
             /\ InScanOrder(NewRecords(edges, edges'))
             /\ InScanOrder(NewRecords(unresolved, unresolved'))
        /\ scanned' = scanned => edges' = edges /\ unresolved' = unresolved]_vars

\* a returned graph of two nodes and two edges whose externals were collected
\* in an order that is not the sorted one
C14_Witness ==
  /\ pc = "done"
  /\ Len(result.nodes) >= 2
  /\ Len(result.edges) >= 2
  /\ Len(result.externals) >= 2
  /\ result.externals # externals

-----------------------------------------------------------------------------
(* C17 *)

\* the depth bound as a number of hops on this disk
HopLimit == IF maxDepth = Infinity THEN Cardinality(DOMAIN fs) ELSE maxDepth

\* the least number of local edges from an entry to p, for p in Reachable
Distance(p) == Min({k \in 0..Cardinality(DOMAIN fs) : p \in ReachWithin(k)})

\* C17: every node of the returned graph lies within maxDepth local edges of
\* an entry; no file farther than maxDepth from every entry is ever scanned; and
\* a file is scanned when it is dequeued at its least distance from the entries.
C17_ScannedAtMinimalDepth ==
  /\ [](pc = "done" => \A p \in Range(ResultPaths) : Abs(p) \in ReachWithin(HopLimit))
  /\ [][scanned' # scanned =>
          /\ HeadDepth <= maxDepth
          /\ resolve("/", HeadFile) \in Reachable
          /\ HeadDepth = Distance(resolve("/", HeadFile))]_vars

\* c.js is one edge from a.js and two edges from a.js through b.js; the graph
\* was returned with c.js a node
C17_Witness ==
  /\ pc = "done"
  /\ fs["/r/a.js"].src = <<Stmt("require", "./b"), Stmt("require", "./c")>>
  /\ fs["/r/b.js"].src = <<Stmt("require", "./c")>>
  /\ entries = <<"a.js">>
  /\ "c.js" \in Range(ResultPaths)
  /\ \E e \in Range(result.edges) : e.from = "b.js" /\ e.to = "c.js"

-----------------------------------------------------------------------------
(* C18 *)

\* how many records of the list come from the file p
CountFrom(recs, p) == Cardinality({i \in 1..Len(recs) : recs[i].from = p})

BothFlagsSet == options.includeExternal = <<TRUE>> /\ options.includeBuiltin = <<TRUE>>

\* C18: in a graph returned with includeExternal and includeBuiltin both true,
\* the depCount of every node is the number of edges from it plus the number of
\* unresolved records from it; and, whatever the flags, the `from` of every edge
\* and of every unresolved record is the path of a node.
C18_EverySpecifierAccounted ==
  pc = "done" =>
    /\ BothFlagsSet =>
         \A i \in 1..Len(result.nodes) :
           result.nodes[i].depCount
             = CountFrom(result.edges, result.nodes[i].path)
               + CountFrom(result.unresolved, result.nodes[i].path)
    /\ \A e \in Range(result.edges) : e.from \in Range(ResultPaths)
    /\ \A u \in Range(result.unresolved) : u.from \in Range(ResultPaths)

\* a graph returned with both flags set for a file that imports a builtin and a
\* missing local file
C18_Witness ==
  /\ pc = "done"
  /\ BothFlagsSet
  /\ \E i \in 1..Len(result.nodes) : result.nodes[i].depCount = 2
  /\ \E e \in Range(result.edges) : e.type = "builtin"
  /\ Len(result.unresolved) = 1

-----------------------------------------------------------------------------
(* C19 *)

\* C19: every path resolveLocal returns, if not null, is that of an existing
\* regular file, whichever of the three steps found it.
C19_ResolvedIsRegularFile ==
  (pc = "returned" /\ arg.fn = "resolveLocal" /\ ret # Null)
    => RegularFileAt(resolve(Root, ret))

\* What holds of the first two steps: a path found as written or by appending
\* an extension is a regular file.
ExactAndExtensionAreFiles ==
  (pc = "returned" /\ arg.fn = "resolveLocal" /\ ret # Null
     /\ ~DirectoryAt(TargetOf(arg.specifier, arg.fromFile)))
    => RegularFileAt(resolve(Root, ret))

-----------------------------------------------------------------------------
(* The lexical scanners on source text: stripComments and the patterns of  *)
(* parse, computed character by character on real strings.                *)

CharsOf(s) == {Char(s, i) : i \in 1..Len(s)}

\* \w, \s and the two quote characters of the patterns
WordSet == CharsOf(Upper) \cup CharsOf(Lower) \cup CharsOf("0123456789_")
SpaceSet == {" ", "\t", "\n", "\r"}
Quotes == {"'", "\""}

\* the template literal delimiter (the backquote, which a TLA+ string cannot
\* hold: "~", a character no source text here uses otherwise, stands for it)
Backquote == "~"

\* source[i]; past the end it is `undefined`, which equals no character
At(s, i) == IF i >= 1 /\ i <= Len(s) THEN Char(s, i) ELSE ""

\* the least index of `hits`, or `none` when there is none (`hits` is worked
\* out once, as the set `found`)
Least(hits, none) ==
  CHOOSE k \in {IF found = {} THEN none ELSE CHOOSE m \in found : \A j \in found : m <= j :
                found \in {hits}} : TRUE

\* the first index from i on whose character is in `set`; past the end if none
SkipUntil(s, i, set) == Least({k \in i..Len(s) : Char(s, k) \in set}, Len(s) + 1)

\* `while (i < source.length && source[i] !== c) i++`
IndexFrom(s, c, i) == SkipUntil(s, i, {c})

\* the end of the longest run of characters of `set` starting at i
SkipWhile(s, i, set) == Least({k \in i..Len(s) : Char(s, k) \notin set}, Len(s) + 1)

SkipSpace(s, i) == SkipWhile(s, i, SpaceSet)

\* `while (i < source.length && !(source[i] === '*' && source[i + 1] === '/')) i++`
BlockEnd(s, i) ==
  Least({k \in i..Len(s) : Char(s, k) = "*" /\ At(s, k + 1) = "/"}, Len(s) + 1)

RECURSIVE QuoteEnd(_, _, _)
\* the loop inside a string or template literal: where it stops (at the closing
\* quote, or past the end); a backslash takes the next character with it
QuoteEnd(s, quote, i) ==
  IF i > Len(s) THEN i
  ELSE IF Char(s, i) = quote THEN i
  ELSE IF Char(s, i) = "\\" THEN QuoteEnd(s, quote, i + 2)
  ELSE QuoteEnd(s, quote, i + 1)

\* one round of the loop of stripComments at position i: the next position
\* and the text added to result; the characters that start no comment and no
\* literal are copied a run at a time
StepJs(source, i) ==
  LET c == Char(source, i)
      d == At(source, i + 1)
  IN IF c = "/" /\ d = "/" THEN <<IndexFrom(source, "\n", i), "">>
     ELSE IF c = "/" /\ d = "*" THEN <<BlockEnd(source, i + 2) + 2, "">>
     ELSE IF c = Backquote \/ c \in Quotes
     THEN LET j == QuoteEnd(source, c, i + 1)
              e == IF j <= Len(source) THEN j ELSE Len(source)
          IN <<e + 1, SubSeq(source, i, e)>>
     ELSE LET j == SkipUntil(source, i + 1, {"/", Backquote} \cup Quotes)
          IN <<j, SubSeq(source, i, j - 1)>>

RECURSIVE StripJs(_, _, _)
\* the loop of stripComments from position i on
StripJs(source, i, out) ==
  IF i > Len(source) THEN out
  ELSE CHOOSE text \in {StripJs(source, step[1], step[2]) :
                          step \in {<<StepJs(source, i)[1], out \o StepJs(source, i)[2]>>}} : TRUE

\* javascript stripComments: comments removed, strings and templates kept
stripComments_javascript(source) == StripJs(source, 1, "")

\* `while (i < source.length && source.slice(i, i + 3) !== quote) i++`
TripleEnd(s, quote, i) ==
  Least({k \in i..(Len(s) - 2) : SubSeq(s, k, k + 2) = quote}, Len(s) + 1)

\* one round of the loop of stripComments at position i: the next position
\* and the text added to result
StepPy(source, i) ==
  LET c == Char(source, i)
  IN IF c \in Quotes /\ At(source, i + 1) = c /\ At(source, i + 2) = c
     THEN <<TripleEnd(source, SubSeq(source, i, i + 2), i + 3) + 3, "\"\"">>
     ELSE IF c = "#" THEN <<IndexFrom(source, "\n", i), "">>
     ELSE IF c \in Quotes
     THEN LET j == QuoteEnd(source, c, i + 1)
              e == IF j <= Len(source) THEN j ELSE Len(source)
          IN <<e + 1, SubSeq(source, i, e)
                        \o (IF j = Len(source) + 2 THEN "undefined" ELSE "")>>
     ELSE LET j == SkipUntil(source, i + 1, {"#"} \cup Quotes)
          IN <<j, SubSeq(source, i, j - 1)>>

RECURSIVE StripPy(_, _, _)
\* the loop of stripComments from position i on
StripPy(source, i, out) ==
  IF i > Len(source) THEN out
  ELSE CHOOSE text \in {StripPy(source, step[1], step[2]) :
                          step \in {<<StepPy(source, i)[1], out \o StepPy(source, i)[2]>>}} : TRUE

\* python stripComments: docstrings become "", # comments removed, strings kept
stripComments_python(source) == StripPy(source, 1, "")

\* the result of one regular expression match: match[1] and lastIndex
NoMatch == [ok |-> FALSE, spec |-> "", end |-> 0]
Match(spec, end) == [ok |-> TRUE, spec |-> spec, end |-> end]

LitAt(s, i, w) == i >= 1 /\ i + Len(w) - 1 <= Len(s) /\ SubSeq(s, i, i + Len(w) - 1) = w

\* ^ under the m flag
AtLineStart(s, i) == i = 1 \/ At(s, i - 1) \in {"\n", "\r"}

\* ['"]([^'"]+)['"]
Quoted(s, q) ==
  IF At(s, q) \notin Quotes THEN NoMatch
  ELSE LET e == SkipUntil(s, q + 1, Quotes)
       IN IF e > q + 1 /\ e <= Len(s) THEN Match(SubSeq(s, q + 1, e - 1), e + 1)
          ELSE NoMatch

\* \s+from\s+['"]([^'"]+)['"]
FromClause(s, g) ==
  LET g1 == SkipSpace(s, g)
  IN IF g1 > g /\ LitAt(s, g1, "from")
     THEN LET g3 == SkipSpace(s, g1 + 4)
          IN IF g3 > g1 + 4 THEN Quoted(s, g3) ELSE NoMatch
     ELSE NoMatch

\* [\s\S]*? before the from clause: the nearest place where the rest matches
FirstFromClause(s, g) ==
  CHOOSE m \in {IF k = 0 THEN NoMatch ELSE FromClause(s, k) :
                k \in {Least({k \in g..Len(s) : Char(s, k) \in SpaceSet /\ FromClause(s, k).ok},
                             0)}} : TRUE

\* \s*import\s+(?:[\s\S]*?\s+from\s+)?['"]([^'"]+)['"]  (or export): the
\* greedy \s+ first with the from clause, then with the bare quote, then the
\* \s+ giving back white space to the from clause
Statement(s, r, kw) ==
  LET r1 == SkipSpace(s, r)
      r2 == r1 + Len(kw)
      r3 == SkipSpace(s, r2)
  IN IF ~LitAt(s, r1, kw) \/ r3 = r2 THEN NoMatch
     ELSE IF FirstFromClause(s, r3).ok THEN FirstFromClause(s, r3)
     ELSE IF Quoted(s, r3).ok THEN Quoted(s, r3)
     ELSE IF r3 - r2 >= 2 THEN FromClause(s, r3 - 1)
     ELSE NoMatch

\* (?:^|;|\}) and the statement after it
StatementAt(s, p, kw) ==
  IF AtLineStart(s, p) /\ Statement(s, p, kw).ok THEN Statement(s, p, kw)
  ELSE IF At(s, p) \in {";", "}"} THEN Statement(s, p + 1, kw)
  ELSE NoMatch

esImport(s, p) == StatementAt(s, p, "import")

esExport(s, p) == StatementAt(s, p, "export")

\* \s*\(\s*['"]([^'"]+)['"]\s*\)
CallArgs(s, r) ==
  LET a == SkipSpace(s, r)
  IN IF At(s, a) # "(" THEN NoMatch
     ELSE LET m == Quoted(s, SkipSpace(s, a + 1))
              c == SkipSpace(s, m.end)
          IN IF m.ok /\ At(s, c) = ")" THEN Match(m.spec, c + 1) ELSE NoMatch

\* (?:^|[^.\w])require and the call after it
cjsRequire(s, p) ==
  IF AtLineStart(s, p) /\ LitAt(s, p, "require") /\ CallArgs(s, p + 7).ok
  THEN CallArgs(s, p + 7)
  ELSE IF p <= Len(s) /\ Char(s, p) \notin (WordSet \cup {"."}) /\ LitAt(s, p + 1, "require")
  THEN CallArgs(s, p + 8)
  ELSE NoMatch

\* \bimport and the call after it
dynamicImport(s, p) ==
  IF At(s, p - 1) \notin WordSet /\ LitAt(s, p, "import") THEN CallArgs(s, p + 6)
  ELSE NoMatch

\* [\w.]
NameSet == WordSet \cup {"."}

\* ^[ \t]*from\s+(\.{0,3}[\w.]*)\s+import\s : the capture is the run of name
\* characters after the white space, or empty when \s+ gives one back
fromPattern(s, p) ==
  LET i1 == SkipWhile(s, p, {" ", "\t"})
      i2 == i1 + 4
      i3 == SkipSpace(s, i2)
      c == SkipWhile(s, i3, NameSet)
      w == SkipSpace(s, c)
  IN IF ~AtLineStart(s, p) \/ ~LitAt(s, i1, "from") \/ i3 = i2 THEN NoMatch
     ELSE IF w > c /\ LitAt(s, w, "import") /\ At(s, w + 6) \in SpaceSet
     THEN Match(SubSeq(s, i3, c - 1), w + 7)
     ELSE IF i3 - i2 >= 2 /\ LitAt(s, i3, "import") /\ At(s, i3 + 6) \in SpaceSet
     THEN Match("", i3 + 7)
     ELSE NoMatch

\* ^[ \t]*import\s+([\w.][\w., \t]*)
importPattern(s, p) ==
  LET i1 == SkipWhile(s, p, {" ", "\t"})
      i2 == i1 + 6
      i3 == SkipSpace(s, i2)
      c == SkipWhile(s, i3 + 1, NameSet \cup {",", " ", "\t"})
  IN IF AtLineStart(s, p) /\ LitAt(s, i1, "import") /\ i3 > i2 /\ At(s, i3) \in NameSet
     THEN Match(SubSeq(s, i3, c - 1), c)
     ELSE NoMatch

RECURSIVE trimStart(_)
trimStart(s) ==
  IF Len(s) > 0 /\ Char(s, 1) \in SpaceSet THEN trimStart(SubSeq(s, 2, Len(s))) ELSE s

RECURSIVE trimEnd(_)
trimEnd(s) ==
  IF Len(s) > 0 /\ Char(s, Len(s)) \in SpaceSet THEN trimEnd(SubSeq(s, 1, Len(s) - 1))
  ELSE s

\* String.prototype.trim
trim(s) == trimEnd(trimStart(s))

RECURSIVE AsIndex(_, _)
\* where /\s+as\s+/ first matches in m (0 when it does not)
AsIndex(m, i) ==
  IF i > Len(m) THEN 0
  ELSE IF Char(m, i) \in SpaceSet /\ LitAt(m, SkipSpace(m, i), "as")
          /\ At(m, SkipSpace(m, i) + 2) \in SpaceSet
  THEN i
  ELSE AsIndex(m, i + 1)

\* m.trim().split(/\s+as\s+/)[0].trim()
ModuleName(m) ==
  LET t == trim(m)
      k == AsIndex(t, 1)
  IN trim(IF k = 0 THEN t ELSE SubSeq(t, 1, k - 1))

\* name && /^[\w.]+$/.test(name)
IsModuleName(name) == Len(name) > 0 /\ CharsOf(name) \subseteq NameSet

RECURSIVE AddAll(_, _)
AddAll(deps, names) ==
  IF Len(names) = 0 THEN deps ELSE AddAll(SetAdd(deps, names[1]), Tail(names))

\* what one match adds to deps
Added(re, m) ==
  IF re = "fromPattern" THEN (IF m.spec = "" THEN <<>> ELSE <<m.spec>>)
  ELSE IF re = "importPattern"
  THEN LET names == [i \in 1..Len(Split(m.spec, ",")) |-> ModuleName(Split(m.spec, ",")[i])]
       IN SelectSeq(names, IsModuleName)
  ELSE <<m.spec>>

MatchAt(re, s, p) ==
  CASE re = "esImport" -> esImport(s, p)
    [] re = "esExport" -> esExport(s, p)
    [] re = "cjsRequire" -> cjsRequire(s, p)
    [] re = "dynamicImport" -> dynamicImport(s, p)
    [] re = "fromPattern" -> fromPattern(s, p)
    [] re = "importPattern" -> importPattern(s, p)

\* re.exec(stripped) from lastIndex: the leftmost match
exec(re, s, lastIndex) ==
  CHOOSE m \in {IF p = 0 THEN NoMatch ELSE MatchAt(re, s, p) :
                p \in {Least({p \in lastIndex..Len(s) : MatchAt(re, s, p).ok}, 0)}} : TRUE

RECURSIVE ExecLoop(_, _, _, _)
\* `while ((match = re.exec(stripped)) !== null) deps.add(...)`
ExecLoop(re, s, lastIndex, deps) ==
  CHOOSE all \in {IF match.ok THEN ExecLoop(re, s, match.end, AddAll(seen, Added(re, match)))
                  ELSE seen :
                  match \in {exec(re, s, lastIndex)}, seen \in {deps}} : TRUE

\* javascript parse on the text of a file
parseSource_javascript(source) ==
  CHOOSE deps \in {ExecLoop("dynamicImport", stripped, 1,
                     ExecLoop("cjsRequire", stripped, 1,
                       ExecLoop("esExport", stripped, 1,
                         ExecLoop("esImport", stripped, 1, <<>>)))) :
                   stripped \in {stripComments_javascript(source)}} : TRUE

\* python parse on the text of a file
parseSource_python(source) ==
  CHOOSE deps \in {ExecLoop("importPattern", stripped, 1,
                     ExecLoop("fromPattern", stripped, 1, <<>>)) :
                   stripped \in {stripComments_python(source)}} : TRUE

parseSource(lang, source) ==
  IF lang = "javascript" THEN parseSource_javascript(source)
  ELSE parseSource_python(source)

-----------------------------------------------------------------------------
(* Direct calls of parse on source text.                                   *)

\* the text of one well-formed import statement, as the parser tests write them
Render(st) ==
  CASE st.form = "import" -> "import x from '" \o st.spec \o "';\n"
    [] st.form = "export" -> "export * from '" \o st.spec \o "';\n"
    [] st.form = "require" -> "const x = require('" \o st.spec \o "');\n"
    [] st.form = "dynamic" -> "const m = await import('" \o st.spec \o "');\n"
    [] st.form = "from" -> "from " \o st.spec \o " import y\n"
    [] st.form = "pyimport" -> "import " \o st.spec \o "\n"

\* a line of source text, what it is in the language's own grammar, and the
\* specifiers written on it
Line(kind, text, specs) == [kind |-> kind, text |-> text, specs |-> specs]

Code(st) == Line("code", Render(st), <<st>>)

JsLines ==
  {Code(Stmt("import", "./a")), Code(Stmt("require", "./a")), Code(Stmt("require", "fs")),
   Code(Stmt("export", "./u")), Code(Stmt("dynamic", "lazy")),
   Line("comment", "// import fake from 'fake';\n", <<Stmt("import", "fake")>>),
   Line("comment", "/* import also from 'also-fake'; */\n", <<Stmt("import", "also-fake")>>),
   Line("comment", "// const y = require('old');\n", <<Stmt("require", "old")>>),
   Line("string", "const s = \"import fake from 'fake'\";\n", <<Stmt("import", "fake")>>),
   Line("string", "const t = \"require('quoted')\";\n", <<Stmt("require", "quoted")>>),
   Line("regex", "const re = /[\"]/;\n", <<>>),
   Line("template", "const u = ~some template~;\n", <<>>)}

PyLines ==
  {Code(Stmt("pyimport", "os")), Code(Stmt("from", ".local")),
   Code(Stmt("from", "os")),
   Line("code", "import os, sys\n", <<Stmt("pyimport", "os"), Stmt("pyimport", "sys")>>),
   Line("code", "import numpy as np\n", <<Stmt("pyimport", "numpy")>>),
   Line("comment", "# import fake\n", <<Stmt("pyimport", "fake")>>),
   Line("comment", "\"\"\"\nimport fake_in_docstring\n\"\"\"\n",
        <<Stmt("pyimport", "fake_in_docstring")>>),
   Line("string", "s = 'from fake import x'\n", <<Stmt("from", "fake")>>)}

RECURSIVE TextOf(_)
TextOf(lines) == IF Len(lines) = 0 THEN "" ELSE lines[1].text \o TextOf(Tail(lines))

RECURSIVE StatementsOf(_, _)
\* the statements written on the lines of the given kinds, in text order
StatementsOf(lines, kinds) ==
  IF Len(lines) = 0 THEN <<>>
  ELSE (IF lines[1].kind \in kinds THEN lines[1].specs ELSE <<>>)
       \o StatementsOf(Tail(lines), kinds)

InitParse ==
  /\ fs = ResolveDisk([lib |-> "none", indexjs |-> "none", indexts |-> FALSE],
                      FALSE, FALSE, FALSE)
  /\ \/ \E lines \in SeqsUpTo(JsLines, MaxLines) :
          arg = [fn |-> "parse", lang |-> "javascript", lines |-> lines]
     \/ \E lines \in SeqsUpTo(PyLines, MaxLines) :
          arg = [fn |-> "parse", lang |-> "python", lines |-> lines]
  /\ ret = NoRet
  /\ pc = "call"
  /\ NoGraph

\* PARSER_MAP[lang].parse(source)
ParseCall ==
  /\ pc = "call" /\ arg.fn = "parse"
  /\ ret' = parseSource(arg.lang, TextOf(arg.lines))
  /\ pc' = "returned"
  /\ UNCHANGED <<fs, entries, options, queue, visited, nodes, edges, externals,
                 builtins, unresolved, scanned, result, arg>>

SpecParse == InitParse /\ [][ParseCall]_vars

Parsed == pc = "returned" /\ arg.fn = "parse"

SpecsOf(lines, kinds) ==
  {StatementsOf(lines, kinds)[i].spec : i \in 1..Len(StatementsOf(lines, kinds))}

\* On a source made of well-formed import statements only, the scanner on the
\* text returns what parse returns on the statements: the graph builder's
\* files, written as statements, are parsed as their text would be.
ParseAgrees ==
  (Parsed /\ \A i \in 1..Len(arg.lines) : arg.lines[i].kind = "code")
    => ret = parse(arg.lang, StatementsOf(arg.lines, {"code"}))

\* Comments are suppressed in every source without a regular expression literal.
CommentsSuppressedWithoutRegex ==
  (Parsed /\ \A i \in 1..Len(arg.lines) : arg.lines[i].kind # "regex")
    => \A name \in SpecsOf(arg.lines, {"comment"}) :
         name \notin SpecsOf(arg.lines, {"code", "string"}) => name \notin Range(ret)

-----------------------------------------------------------------------------
(* C11 *)

\* C11: whatever the source text, a specifier written only inside a comment
\* (a // or /* */ comment of javascript, a # comment or a docstring of python)
\* is not in the list parse returns.
C11_CommentedNeverExtracted ==
  Parsed =>
    \A name \in SpecsOf(arg.lines, {"comment"}) :
      name \notin SpecsOf(arg.lines, {"code", "string"}) => name \notin Range(ret)

-----------------------------------------------------------------------------
(* C12 *)

\* C12: whatever the javascript source text, a specifier written only as the
\* content of an unrelated string literal (in an import-from, export-from,
\* require(...) or import(...) shape) is not in the list parse returns, and the
\* specifiers of the real imports next to it are.
C12_QuotedNeverExtracted ==
  (Parsed /\ arg.lang = "javascript") =>
    /\ \A name \in SpecsOf(arg.lines, {"string"}) :
         name \notin SpecsOf(arg.lines, {"code", "comment"}) => name \notin Range(ret)
    /\ SpecsOf(arg.lines, {"code"}) \subseteq Range(ret)

-----------------------------------------------------------------------------
(* C15 *)

RECURSIVE FirstOccurrences(_)
\* seq without the later repetitions of its elements
FirstOccurrences(seq) ==
  IF Len(seq) = 0 THEN <<>>
  ELSE LET init == FirstOccurrences(SubSeq(seq, 1, Len(seq) - 1))
       IN IF seq[Len(seq)] \in Range(init) THEN init ELSE Append(init, seq[Len(seq)])

\* the specifiers of the import statements of the source, in text order
WrittenSpecifiers ==
  [i \in 1..Len(StatementsOf(arg.lines, {"code"})) |->
     StatementsOf(arg.lines, {"code"})[i].spec]

\* C15: on every source of import statements (require calls, static imports,
\* re-exports and dynamic imports mixed), parse returns the specifiers without
\* duplicates and in the order of their first occurrence in the text.
C15_FirstOccurrenceOrder ==
  (Parsed /\ \A i \in 1..Len(arg.lines) : arg.lines[i].kind = "code")
    => ret = FirstOccurrences(WrittenSpecifiers)

\* What parse does return there: the same specifiers, without duplicates.
ParseReturnsWrittenSet ==
  (Parsed /\ \A i \in 1..Len(arg.lines) : arg.lines[i].kind = "code")
    => /\ Range(ret) = Range(WrittenSpecifiers)
       /\ NoDuplicates(ret)

-----------------------------------------------------------------------------
(* formatTree, the text tree renderer.                                     *)

\* \x1b, and the box-drawing connectors: characters a TLA+ string cannot hold,
\* written in ASCII
ESC == "^["
LastConnector == "+-- "
MidConnector == "|-- "
LastIndent == "    "
MidIndent == "|   "

\* colorize(filePath)
colorize(filePath) ==
  LET ext == extname(filePath)
      c == IF ext \in {".js", ".jsx", ".mjs", ".cjs"} THEN ESC \o "[33m"
           ELSE IF ext \in {".ts", ".tsx"} THEN ESC \o "[36m"
           ELSE IF ext = ".py" THEN ESC \o "[32m"
           ELSE ""
  IN IF c # "" THEN c \o filePath \o ESC \o "[0m" ELSE filePath

\* adj.get(nodePath) || []
Adjacent(graph, nodePath) ==
  LET From(e) == e.from = nodePath IN SelectSeq(graph.edges, From)

\* the edges of type local of a list
OnlyLocal(edgeList) ==
  LET IsLocal(e) == e.type = "local" IN SelectSeq(edgeList, IsLocal)

RECURSIVE render(_, _, _, _, _, _, _)
RECURSIVE renderChildren(_, _, _, _, _, _)
\* render(nodePath, prefix, isLast, isRoot); st holds `lines` and `visited`
render(st, graph, color, nodePath, prefix, isLast, isRoot) ==
  LET connector == IF isRoot THEN "" ELSE IF isLast THEN LastConnector ELSE MidConnector
      name == IF color THEN colorize(nodePath) ELSE nodePath
      nextPrefix == IF isRoot THEN ""
                    ELSE prefix \o (IF isLast THEN LastIndent ELSE MidIndent)
      shown == [st EXCEPT !.lines = Append(@, prefix \o connector \o name)]
  IN IF nodePath \in st.visited
     THEN IF Len(Adjacent(graph, nodePath)) > 0
          THEN [shown EXCEPT !.lines =
                  Append(@, nextPrefix \o (IF color THEN ESC \o "[2m(circular)" \o ESC \o "[0m"
                                           ELSE "(circular)"))]
          ELSE shown
     ELSE renderChildren([shown EXCEPT !.visited = @ \cup {nodePath}], graph, color,
                         OnlyLocal(Adjacent(graph, nodePath)), 1, nextPrefix)

\* children.forEach((edge, i) => render(edge.to, nextPrefix, last, false))
renderChildren(st, graph, color, children, i, nextPrefix) ==
  IF i > Len(children) THEN st
  ELSE renderChildren(render(st, graph, color, children[i].to, nextPrefix,
                             i = Len(children), FALSE),
                      graph, color, children, i + 1, nextPrefix)

RECURSIVE renderRoots(_, _, _, _, _)
\* roots.forEach((root, i) => { if (i > 0) lines.push(''); render(root, ...) })
renderRoots(st, graph, color, roots, i) ==
  IF i > Len(roots) THEN st
  ELSE renderRoots(render(IF i > 1 THEN [st EXCEPT !.lines = Append(@, "")] ELSE st,
                          graph, color, roots[i], "", i = Len(roots), TRUE),
                   graph, color, roots, i + 1)

\* the nodes without an incoming local edge, or the first node if there is none
RootsOf(graph) ==
  LET targets == {e.to : e \in Range(OnlyLocal(graph.edges))}
      NotTarget(p) == p \notin targets
      paths == [i \in 1..Len(graph.nodes) |-> graph.nodes[i].path]
      roots == SelectSeq(paths, NotTarget)
  IN IF Len(roots) = 0 /\ Len(graph.nodes) > 0 THEN <<graph.nodes[1].path>> ELSE roots

\* `${graph.nodes.length} files, ${...} local deps`
SummaryLine(graph) ==
  ToString(Len(graph.nodes)) \o " files, " \o ToString(Len(OnlyLocal(graph.edges)))
    \o " local deps"

\* formatTree(graph, { color })
formatTree(graph, color) ==
  LET tree == renderRoots([lines |-> <<>>, visited |-> {}], graph, color, RootsOf(graph), 1)
      summary == <<"", SummaryLine(graph)>>
      external == IF Len(graph.externals) > 0
                  THEN <<"External: " \o JoinWith(graph.externals, ", ")>> ELSE <<>>
      missing == IF Len(graph.unresolved) > 0
                 THEN <<(IF color THEN ESC \o "[33mUnresolved" \o ESC \o "[0m" ELSE "Unresolved")
                        \o ": "
                        \o JoinWith([i \in 1..Len(graph.unresolved) |->
                                       graph.unresolved[i].specifier], ", ")>>
                 ELSE <<>>
  IN JoinWith(tree.lines \o summary \o external \o missing, "\n")

\* String.prototype.includes
includes(s, sub) ==
  \E i \in 1..(Len(s) - Len(sub) + 1) : SubSeq(s, i, i + Len(sub) - 1) = sub

-----------------------------------------------------------------------------
(* Direct calls of formatTree on the graphs buildGraph returns for a few   *)
(* files that are all entries.                                             *)

TreeFiles == <<"a.js", "b.js", "c.js">>

\* the node lists: the files scanned, in scan order
NodeLists == {l \in SeqsUpTo(Range(TreeFiles), Len(TreeFiles)) : NoDuplicates(l)}

\* every (from, to) a local edge of these nodes can have, grouped by `from` in
\* scan order as buildGraph pushes them
EdgeSlots(paths) ==
  [k \in 1..(Len(paths) * Len(TreeFiles)) |->
     <<paths[((k - 1) \div Len(TreeFiles)) + 1], TreeFiles[((k - 1) % Len(TreeFiles)) + 1]>>]

\* the graph of the nodes `paths` with the local edges `chosen`
GraphOf(paths, chosen, extra) ==
  LET Chosen(slot) == slot \in chosen
      slots == SelectSeq(EdgeSlots(paths), Chosen)
  IN [nodes |-> [i \in 1..Len(paths) |->
                   [path |-> paths[i], language |-> "javascript",
                    depCount |-> Cardinality({c \in chosen : c[1] = paths[i]})
                                 + (IF i = 1 /\ extra # "none" THEN 1 ELSE 0)]],
      edges |-> [i \in 1..Len(slots) |->
                   [from |-> slots[i][1], to |-> slots[i][2],
                    specifier |-> "./" \o slots[i][2], type |-> "local"]],
      externals |-> IF extra = "external" THEN <<"express">> ELSE <<>>,
      builtins |-> <<>>,
      unresolved |-> IF extra = "unresolved"
                     THEN <<[from |-> paths[1], specifier |-> "./missing"]>> ELSE <<>>]

InitFormat ==
  /\ fs = ResolveDisk([lib |-> "none", indexjs |-> "none", indexts |-> FALSE],
                      FALSE, FALSE, FALSE)
  /\ \E paths \in NodeLists, color \in BOOLEAN :
       \E chosen \in {c \in SUBSET Range(EdgeSlots(paths)) : Cardinality(c) <= MaxTreeEdges},
          extra \in (IF Len(paths) = 0 THEN {"none"} ELSE {"none", "external", "unresolved"}) :
         arg = [fn |-> "formatTree", graph |-> GraphOf(paths, chosen, extra), color |-> color]
  /\ ret = NoRet
  /\ pc = "call"
  /\ NoGraph

\* formatTree(graph, { color })
FormatCall ==
  /\ pc = "call" /\ arg.fn = "formatTree"
  /\ ret' = formatTree(arg.graph, arg.color)
  /\ pc' = "returned"
  /\ UNCHANGED <<fs, entries, options, queue, visited, nodes, edges, externals,
                 builtins, unresolved, scanned, result, arg>>

SpecFormat == InitFormat /\ [][FormatCall]_vars

-----------------------------------------------------------------------------
(* C16 *)

Formatted == pc = "returned" /\ arg.fn = "formatTree"

\* C16: for every graph, with cycles and with several roots, formatTree returns
\* a text that contains the path of every node of graph.nodes and, after the
\* tree, the line '<number of nodes> files, <number of local edges> local deps'.
C16_TreeShowsEveryNode ==
  Formatted =>
    /\ \A i \in 1..Len(arg.graph.nodes) : includes(ret, arg.graph.nodes[i].path)
    /\ includes(ret, "\n" \o SummaryLine(arg.graph))

\* What holds of every graph: the call returns, with the summary line after
\* the tree, and the first root is shown.
TreeEndsWithSummary ==
  Formatted =>
    /\ includes(ret, "\n" \o SummaryLine(arg.graph))
    /\ Len(arg.graph.nodes) > 0 => includes(ret, RootsOf(arg.graph)[1])

=============================================================================
